---- MODULE Spec2Model ----
(***************************************************************************)
(* Model of the derivation core of codebase-digest:                        *)
(*   FlowAnalyzer      (analyzer/flow_analyzer.py)                         *)
(*   MetricsAnalyzer   (analyzer/metrics_analyzer.py)                      *)
(*   GraphExporter     (exporters/graph_exporter.py)                       *)
(* run in the order CodebaseAnalyzer.analyze and a graph export use them:  *)
(* flows, complexity, graph build / prune / entrypoints / depth filter,    *)
(* graph statistics.                                                       *)
(*                                                                         *)
(* Representation.  A Python string that the code splits on "." is a       *)
(* tuple of its dot-separated segments: "Handler.handle" is                *)
(* <<"Handler", "handle">>, "main" is <<"main">>.  A file path is          *)
(* <<directory, basename>>.  A node id f"{basename}::{name}" is            *)
(* <<basename, name>>.  None is the empty tuple where a tuple is expected. *)
(***************************************************************************)
EXTENDS Integers, Sequences, FiniteSets, TLC

\* ------------------------------------------------------------------ bounds
\* Most Symbols / CallRelations drawn from the pools into one input.
MaxSyms == 3
MaxCalls == 3
\* Largest max_depth argument handed to GraphExporter (besides None).
MaxDepthArg == 1

\* ------------------------------------------------------------ data model
NoneVal == <<>>
NoDepth == -1

Sym(n, t, f, l, d) == [name |-> n, type |-> t, file_path |-> f, line_number |-> l, decorators |-> d]

CallRelation(s, c) == [caller_symbol |-> s, callee_name |-> c, callee_file |-> NoneVal]

MainPy == <<"", "main.py">>
HandlersPy == <<"", "handlers.py">>
PkgMainPy == <<"pkg", "main.py">>

S_main == Sym(<<"main">>, "function", MainPy, 1, <<>>)
S_run_server == Sym(<<"run_server">>, "function", MainPy, 5, <<>>)
S_Handler == Sym(<<"Handler">>, "class", HandlersPy, 1, <<>>)
S_handle == Sym(<<"Handler", "handle">>, "method", HandlersPy, 2, <<>>)
S_build == Sym(<<"build">>, "function", MainPy, 9, <<>>)
S_pkg_main == Sym(<<"main">>, "function", PkgMainPy, 1, <<>>)

\* The generic pools: an input takes a sub-sequence of each.  A call whose
\* caller is not among the chosen Symbols is a malformed record.
SymbolPool == <<S_main, S_run_server, S_Handler, S_handle, S_build, S_pkg_main>>

CallPool ==
  << CallRelation(S_main, <<"run_server">>),
     CallRelation(S_run_server, <<"Handler">>),
     CallRelation(S_build, <<"run_server">>),
     CallRelation(S_run_server, <<"self", "handle">>),
     CallRelation(S_handle, <<"main">>),
     CallRelation(S_pkg_main, <<"build">>),
     CallRelation(S_main, <<"print">>),
     CallRelation(S_handle, <<"Handler", "handle">>) >>

\* ---------------------------------------------------------------- helpers
Min(a, b) == IF a < b THEN a ELSE b
Max(a, b) == IF a > b THEN a ELSE b

Range(s) == {s[i] : i \in 1..Len(s)}

Last(s) == s[Len(s)]

Contains(s, x) == \E i \in 1..Len(s) : s[i] = x

\* The sub-sequence of pool at the positions in idx, in pool order.
SubSeqAt(pool, idx) == SelectSeq([i \in 1..Len(pool) |-> IF i \in idx THEN <<pool[i]>> ELSE <<>>], LAMBDA x : x # <<>>)

RECURSIVE Flatten(_)
Flatten(ss) == IF ss = <<>> THEN <<>> ELSE Head(ss) \o Flatten(Tail(ss))

Pick(pool, idx) == Flatten(SubSeqAt(pool, idx))

\* s without later repetitions (the order a dict or DiGraph keeps keys in).
RECURSIVE Dedup(_)
Dedup(s) ==
  IF s = <<>> THEN <<>>
  ELSE LET r == Dedup(SubSeq(s, 1, Len(s) - 1))
       IN IF Contains(r, Last(s)) THEN r ELSE Append(r, Last(s))

\* All orderings of a finite set, as sequences.
Perms(S) == {p \in [1..Cardinality(S) -> S] : \A i, j \in 1..Cardinality(S) : p[i] = p[j] => i = j}

\* A call's outcome: the value it returns, or the exception it raises.
Ok(v) == [exc |-> "", val |-> v]

Raise(e) == [exc |-> e, val |-> <<>>]

\* An arbitrary but fixed ordering of a finite set.
RECURSIVE SetToSeq(_)
SetToSeq(S) == IF S = {} THEN <<>> ELSE LET x == CHOOSE y \in S : TRUE IN <<x>> \o SetToSeq(S \ {x})

\* str.lower() on one dot-free segment: the segments of the model's
\* universe that hold an upper-case letter, every other one is unchanged.
LowerSeg(s) ==
  CASE s = "Handler" -> "handler"
    [] s = "Run" -> "run"
    [] s = "Main.py" -> "main.py"
    [] s = "UserRepo" -> "userrepo"
    [] s = "Server" -> "server"
    [] OTHER -> s

\* str.lower() on a dotted string.
Lower(name) == [i \in 1..Len(name) |-> LowerSeg(name[i])]

\* ------------------------------------------------ GraphExporter: building
\* f"{symbol.file_path.name}::{symbol.name}"
_node_id(symbol) == <<symbol.file_path[2], symbol.name>>

\* Mutant: the Symbols are indexed under their full name only.
symbol_index_full_name_only(symbols, key) ==
  Flatten([i \in 1..Len(symbols) |-> IF symbols[i].name = key THEN <<symbols[i]>> ELSE <<>>])

\* symbol_index[key]: every Symbol is appended under its base name
\* (name.split('.')[-1]) and then under its full name, in collection order;
\* a missing key is the empty list.
symbol_index(symbols, key) ==
  Flatten([i \in 1..Len(symbols) |->
     (IF <<Last(symbols[i].name)>> = key THEN <<symbols[i]>> ELSE <<>>)
     \o (IF symbols[i].name = key THEN <<symbols[i]>> ELSE <<>>)])

InIndex(symbols, key) == symbol_index(symbols, key) # <<>>

\* Mutant: the raw callee text is looked up without being normalized to its
\* last segment.
ResolveCallee_raw(symbols, call) ==
  IF InIndex(symbols, call.callee_name)
  THEN LET candidates == symbol_index(symbols, call.callee_name)
           same_file_candidates == SelectSeq(candidates, LAMBDA s : s.file_path = call.caller_symbol.file_path)
       IN IF same_file_candidates # <<>>
          THEN _node_id(same_file_candidates[1])
          ELSE _node_id(candidates[1])
  ELSE NoneVal

\* Mutant: strategy 1 takes the first candidate without looking for one in
\* the caller's file.
ResolveCallee_first(symbols, call) ==
  LET callee_base == <<Last(call.callee_name)>>
  IN IF InIndex(symbols, callee_base)
     THEN _node_id(symbol_index(symbols, callee_base)[1])
     ELSE NoneVal

\* The three resolution strategies of the edge loop: the callee's node id,
\* or NoneVal.
ResolveCallee(symbols, call) ==
  LET callee_base == <<Last(call.callee_name)>>
  IN IF InIndex(symbols, callee_base)
     THEN LET candidates == symbol_index(symbols, callee_base)
              same_file_candidates == SelectSeq(candidates, LAMBDA s : s.file_path = call.caller_symbol.file_path)
          IN IF same_file_candidates # <<>>
             THEN _node_id(same_file_candidates[1])
             ELSE _node_id(candidates[1])
     ELSE IF InIndex(symbols, call.callee_name)
     THEN LET candidates == symbol_index(symbols, call.callee_name)
              class_candidates == SelectSeq(candidates, LAMBDA s : s.type = "class")
          IN IF class_candidates # <<>>
             THEN _node_id(class_candidates[1])
             ELSE _node_id(candidates[1])
     ELSE IF Len(call.callee_name) > 1
     THEN IF Len(call.callee_name) = 2 /\ InIndex(symbols, call.callee_name)
          THEN _node_id(symbol_index(symbols, call.callee_name)[1])
          ELSE NoneVal
     ELSE NoneVal

EmptyGraph == [nodes |-> <<>>, edges |-> {}]

HasNode(G, n) == Contains(G.nodes, n)

NodeSet(G) == Range(G.nodes)

\* Mutant: no node is added for a Symbol with a dotted name.
AddNodes_undotted_only(symbols) ==
  [nodes |-> Dedup(Flatten([i \in 1..Len(symbols) |->
                              IF Len(symbols[i].name) = 1 THEN <<_node_id(symbols[i])>> ELSE <<>>])),
   edges |-> {}]

\* G.add_node for every Symbol: a repeated id keeps its first position.
AddNodes(symbols) == [nodes |-> Dedup([i \in 1..Len(symbols) |-> _node_id(symbols[i])]), edges |-> {}]

\* Whether the edge loop adds an edge for this call.
EdgeAdded(G, symbols, call) ==
  /\ ResolveCallee(symbols, call) # NoneVal
  /\ HasNode(G, _node_id(call.caller_symbol))
  /\ HasNode(G, ResolveCallee(symbols, call))

\* The edge loop over analysis.call_relations (lines 65-122).
RECURSIVE AddEdges(_, _, _)
AddEdges(G, symbols, calls) ==
  IF calls = <<>> THEN G
  ELSE LET call == Head(calls)
           G2 == IF EdgeAdded(G, symbols, call)
                 THEN [G EXCEPT !.edges = @ \cup {<<_node_id(call.caller_symbol), ResolveCallee(symbols, call)>>}]
                 ELSE G
       IN AddEdges(G2, symbols, Tail(calls))

\* unresolved_calls: the raw callee text of every call that added no edge.
Unresolved(G, symbols, calls) ==
  Flatten([i \in 1..Len(calls) |-> IF EdgeAdded(G, symbols, calls[i]) THEN <<>> ELSE <<calls[i].callee_name>>])

\* ------------------------------------------------- GraphExporter: pruning
RemoveNodes(G, R) ==
  [nodes |-> SelectSeq(G.nodes, LAMBDA n : n \notin R),
   edges |-> {e \in G.edges : e[1] \notin R /\ e[2] \notin R}]

\* valid_nodes is the id set of the Symbols; every other node is removed.
_remove_builtin_noise(G, symbols) ==
  RemoveNodes(G, {n \in NodeSet(G) : n \notin {_node_id(symbols[i]) : i \in 1..Len(symbols)}})

InDegree(G, n) == Cardinality({e \in G.edges : e[2] = n})

OutDegree(G, n) == Cardinality({e \in G.edges : e[1] = n})

\* Mutant: a self-loop does not count, so a node with no other edge is
\* isolated.
Isolates_ignoring_self_loops(G) ==
  {n \in NodeSet(G) : \A e \in G.edges : (e[1] = n \/ e[2] = n) => e = <<n, n>>}

\* Mutant: no node counts as isolated, so the isolation filter removes none.
Isolates_none(G) == {}

\* nx.isolates: the nodes of degree 0 (a self-loop counts in and out).
Isolates(G) == {n \in NodeSet(G) : InDegree(G, n) + OutDegree(G, n) = 0}

\* The nodes joined to the set C by edges taken in either direction.
RECURSIVE WeakClosure(_, _)
WeakClosure(G, C) ==
  LET next == C \cup {e[2] : e \in {x \in G.edges : x[1] \in C}}
                 \cup {e[1] : e \in {x \in G.edges : x[2] \in C}}
  IN IF next = C THEN C ELSE WeakClosure(G, next)

\* nx.weakly_connected_components: one set per component, generated in
\* the order the graph first meets a node of it.
RECURSIVE ComponentsFrom(_, _, _)
ComponentsFrom(G, nodes, seen) ==
  IF nodes = <<>> THEN <<>>
  ELSE IF Head(nodes) \in seen THEN ComponentsFrom(G, Tail(nodes), seen)
  ELSE LET c == WeakClosure(G, {Head(nodes)})
       IN <<c>> \o ComponentsFrom(G, Tail(nodes), seen \cup c)

weakly_connected_components(G) == ComponentsFrom(G, G.nodes, {})

\* Mutant: among the components of the greatest size the last one is taken.
MaxByLen_last(components) ==
  IF components = <<>> THEN Raise("ValueError")
  ELSE Ok(LET top == CHOOSE k \in {Cardinality(components[i]) : i \in 1..Len(components)} :
                    \A i \in 1..Len(components) : Cardinality(components[i]) <= k
       IN components[CHOOSE i \in 1..Len(components) :
                       /\ Cardinality(components[i]) = top
                       /\ \A j \in (i + 1)..Len(components) : Cardinality(components[j]) # top])

\* max(components, key=len): the first component of the greatest size.
\* On an empty list max() raises ValueError.
MaxByLen(components) ==
  IF components = <<>> THEN Raise("ValueError")
  ELSE Ok(LET top == CHOOSE k \in {Cardinality(components[i]) : i \in 1..Len(components)} :
                    \A i \in 1..Len(components) : Cardinality(components[i]) <= k
       IN components[CHOOSE i \in 1..Len(components) :
                       /\ Cardinality(components[i]) = top
                       /\ \A j \in 1..(i - 1) : Cardinality(components[j]) # top])

\* The node orders G.subgraph(keep).copy() can give the copy.  keep is a
\* Python set of str.  The subgraph view iterates the graph's own node dict
\* and filters it, unless the set is less than half as large as the graph:
\* then it iterates the set, whose order follows the per-process string
\* hash seed, so every order of the set is a possible outcome.
SubgraphNodeOrders(G, keep) ==
  LET kept == keep \cap NodeSet(G)
  IN IF 2 * Cardinality(kept) < Len(G.nodes)
     THEN Perms(kept)
     ELSE {SelectSeq(G.nodes, LAMBDA n : n \in kept)}

\* The node-induced subgraph with its nodes in the given order.
SubgraphCopy(G, order) ==
  [nodes |-> order, edges |-> {e \in G.edges : e[1] \in Range(order) /\ e[2] \in Range(order)}]

\* ------------------------------------------- GraphExporter: entrypoints
\* Mutant: the score without the point for zero incoming edges.
EntrypointScore_no_topology(G, node) ==
  LET file_name == LowerSeg(node[1])
      symbol_name == Lower(node[2])
  IN (IF file_name \in {"main.py", "app.py", "__main__.py"} THEN 3
      ELSE IF file_name \in {"cli.py", "server.py", "run.py"} THEN 2 ELSE 0)
     + (IF symbol_name \in {<<"main">>, <<"run">>, <<"start">>} THEN 2
        ELSE IF symbol_name \in {<<"app">>, <<"cli">>, <<"server">>} THEN 1 ELSE 0)
     + (IF symbol_name = <<"build">> THEN 3 ELSE 0)

\* The weighted score of one node (lines 201-229).
EntrypointScore(G, node) ==
  LET file_name == LowerSeg(node[1])
      symbol_name == Lower(node[2])
  IN (IF file_name \in {"main.py", "app.py", "__main__.py"} THEN 3
      ELSE IF file_name \in {"cli.py", "server.py", "run.py"} THEN 2 ELSE 0)
     + (IF symbol_name \in {<<"main">>, <<"run">>, <<"start">>} THEN 2
        ELSE IF symbol_name \in {<<"app">>, <<"cli">>, <<"server">>} THEN 1 ELSE 0)
     + (IF symbol_name = <<"build">> THEN 3 ELSE 0)
     + (IF InDegree(G, node) = 0 THEN 1 ELSE 0)

\* list.sort(key=score, reverse=True): stable, so equal scores keep their
\* order.  The score is at most 3 + 3 + 1.
SortByScoreDesc(G, cands) ==
  Flatten([k \in 1..8 |-> SelectSeq(cands, LAMBDA n : EntrypointScore(G, n) = 8 - k)])

\* Mutant: every candidate that reaches the threshold is returned, not only
\* those of the top score.
_detect_entrypoints_all(G) ==
  LET entrypoint_candidates == SortByScoreDesc(G, SelectSeq(G.nodes, LAMBDA n : EntrypointScore(G, n) >= 3))
  IN SubSeq(entrypoint_candidates, 1, Min(2, Len(entrypoint_candidates)))

\* Mutant: every node of the top score is returned, without the cap of 2.
_detect_entrypoints_uncapped(G) ==
  LET entrypoint_candidates == SortByScoreDesc(G, SelectSeq(G.nodes, LAMBDA n : EntrypointScore(G, n) >= 3))
  IN IF entrypoint_candidates # <<>>
     THEN LET top_score == EntrypointScore(G, entrypoint_candidates[1])
          IN SelectSeq(entrypoint_candidates, LAMBDA n : EntrypointScore(G, n) = top_score)
     ELSE <<>>

_detect_entrypoints(G) ==
  LET entrypoint_candidates == SortByScoreDesc(G, SelectSeq(G.nodes, LAMBDA n : EntrypointScore(G, n) >= 3))
  IN IF entrypoint_candidates # <<>>
     THEN LET top_score == EntrypointScore(G, entrypoint_candidates[1])
              dominant == SelectSeq(entrypoint_candidates, LAMBDA n : EntrypointScore(G, n) = top_score)
          IN SubSeq(dominant, 1, Min(2, Len(dominant)))
     ELSE <<>>

\* ------------------------------------------- GraphExporter: depth filter
\* Mutant: the traversal follows the incoming edges.
Successors_incoming(G, n) == {e[1] : e \in {x \in G.edges : x[2] = n}}

Successors(G, n) == {e[2] : e \in {x \in G.edges : x[1] = n}}

\* Mutant: the successors are still expanded at depth = max_depth.
RECURSIVE Bfs_inclusive(_, _, _, _, _)
Bfs_inclusive(G, queue, visited, keep, max_depth) ==
  IF queue = <<>> THEN keep
  ELSE LET node == Head(queue)[1]
           depth == Head(queue)[2]
           fresh == IF depth <= max_depth THEN Successors(G, node) \ visited ELSE {}
           more == [i \in 1..Cardinality(fresh) |-> <<SetToSeq(fresh)[i], depth + 1>>]
       IN Bfs_inclusive(G, Tail(queue) \o more, visited \cup fresh, keep \cup {node}, max_depth)

\* The BFS loop of one entry: queue holds <<node, depth>> pairs.
RECURSIVE Bfs(_, _, _, _, _)
Bfs(G, queue, visited, keep, max_depth) ==
  IF queue = <<>> THEN keep
  ELSE LET node == Head(queue)[1]
           depth == Head(queue)[2]
           fresh == IF depth < max_depth THEN Successors(G, node) \ visited ELSE {}
           more == [i \in 1..Cardinality(fresh) |-> <<SetToSeq(fresh)[i], depth + 1>>]
       IN Bfs(G, Tail(queue) \o more, visited \cup fresh, keep \cup {node}, max_depth)

\* Mutant: the traversal starts from the first entrypoint only.
NodesToKeep_first_entry(G, entrypoints, max_depth) ==
  Bfs(G, <<<<entrypoints[1], 0>>>>, {entrypoints[1]}, {}, max_depth)

\* nodes_to_keep: the union over the entrypoints that are nodes of G.
NodesToKeep(G, entrypoints, max_depth) ==
  UNION {Bfs(G, <<<<e, 0>>>>, {e}, {}, max_depth) : e \in {x \in Range(entrypoints) : HasNode(G, x)}}

\* The entrypoints _apply_depth_filter starts from: the flagged nodes, and
\* when there are none the detector's result.
DepthFilterEntries(G, flagged) ==
  LET marked == SelectSeq(G.nodes, LAMBDA n : n \in flagged)
  IN IF marked # <<>> THEN marked ELSE _detect_entrypoints(G)

\* ------------------------------------------------ GraphExporter: stats
\* nx.is_weakly_connected raises on the null graph.
IsWeaklyConnected(G) ==
  IF G.nodes = <<>> THEN Raise("NetworkXPointlessConcept")
  ELSE Ok(WeakClosure(G, {G.nodes[1]}) = NodeSet(G))

\* nx.density of a DiGraph, as <<numerator, denominator>>.
Density(G) ==
  IF Cardinality(G.edges) = 0 \/ Len(G.nodes) <= 1 THEN <<0, 1>>
  ELSE <<Cardinality(G.edges), Len(G.nodes) * (Len(G.nodes) - 1)>>

\* Mutant: get_graph_stats without the early return on the empty graph and
\* without the per-field guards.
get_graph_stats_unguarded(G) ==
  LET connected == IsWeaklyConnected(G)
  IN IF connected.exc # "" THEN connected
     ELSE Ok([nodes |-> Len(G.nodes),
              edges |-> Cardinality(G.edges),
              density |-> Density(G),
              is_connected |-> connected.val,
              components |-> Len(weakly_connected_components(G))])

\* The record get_graph_stats returns, or the exception a call in it raises.
get_graph_stats(G) ==
  IF Len(G.nodes) = 0
  THEN Ok([nodes |-> 0, edges |-> 0, density |-> <<0, 1>>, is_connected |-> FALSE, components |-> 0])
  ELSE LET connected == IF Len(G.nodes) > 0 THEN IsWeaklyConnected(G) ELSE Ok(FALSE)
       IN IF connected.exc # "" THEN connected
          ELSE Ok([nodes |-> Len(G.nodes),
                   edges |-> Cardinality(G.edges),
                   density |-> IF Cardinality(G.edges) > 0 THEN Density(G) ELSE <<0, 1>>,
                   is_connected |-> connected.val,
                   components |-> IF Len(G.nodes) > 0 THEN Len(weakly_connected_components(G)) ELSE 0])

\* ------------------------------------------------------- FlowAnalyzer
\* str(...) built from a template and one name: f"{entry}_flow" and the
\* fixed names of the pattern flows.
Fmt(template, arg) == [fmt |-> template, arg |-> arg]

ExecutionFlow(n, e, st, fi, d) == [name |-> n, entry_point |-> e, steps |-> st, files_involved |-> fi, description |-> d]

\* The nodes of call_graph: every caller name and every raw callee text.
InCallGraph(calls, name) ==
  \E i \in 1..Len(calls) : calls[i].caller_symbol.name = name \/ calls[i].callee_name = name

\* call_graph.successors(name), in the order the edges were first added.
FlowSuccessors(calls, name) ==
  Dedup(Flatten([i \in 1..Len(calls) |-> IF calls[i].caller_symbol.name = name THEN <<calls[i].callee_name>> ELSE <<>>]))

_find_entry_functions(symbols) ==
  Flatten([i \in 1..Len(symbols) |->
     IF symbols[i].name \in {<<"main">>, <<"__main__">>, <<"app">>, <<"run">>, <<"start">>} THEN <<symbols[i].name>> ELSE <<>>])
  \o Flatten([i \in 1..Len(symbols) |->
     IF \E k \in 1..Len(symbols[i].decorators) :
          symbols[i].decorators[k] \in {"@app.route", "@router.get", "@router.post", "@api.route", "@bp.route"}
     THEN <<symbols[i].name>> ELSE <<>>])

\* The files dfs adds for one visited name (lines 83-87).
FilesOf(calls, func_name) ==
  UNION {{calls[i].caller_symbol.file_path} \cup (IF calls[i].callee_file # NoneVal THEN {calls[i].callee_file} ELSE {})
         : i \in {j \in 1..Len(calls) : calls[j].caller_symbol.name = func_name}}

\* `word in name.lower()` for a dot-free word: the lower-cased segments of
\* the model's universe that contain one of the words.
CrudSegs == {"get_user", "save", "delete_user"}

AuthSegs == {"login", "validate_token"}

HasWord(name, segs) == \E i \in 1..Len(name) : LowerSeg(name[i]) \in segs

_detect_crud_pattern(symbols) ==
  LET crud_functions == Flatten([i \in 1..Len(symbols) |-> IF HasWord(symbols[i].name, CrudSegs) THEN <<symbols[i].name>> ELSE <<>>])
  IN IF Len(crud_functions) >= 3
     THEN <<ExecutionFlow(Fmt("crud_operations", <<>>), <<"CRUD Operations">>, crud_functions, {},
                          Fmt("CRUD operations detected in the codebase", <<>>))>>
     ELSE <<>>

_detect_auth_pattern(symbols) ==
  LET auth_functions == Flatten([i \in 1..Len(symbols) |-> IF HasWord(symbols[i].name, AuthSegs) THEN <<symbols[i].name>> ELSE <<>>])
  IN IF Len(auth_functions) >= 2
     THEN <<ExecutionFlow(Fmt("authentication_flow", <<>>), <<"Authentication System">>, auth_functions, {},
                          Fmt("Authentication and authorization flow", <<>>))>>
     ELSE <<>>

_detect_common_patterns(symbols) == _detect_crud_pattern(symbols) \o _detect_auth_pattern(symbols)

\* ---------------------------------------------------- MetricsAnalyzer
\* The keys of call_graph, in insertion order.
Callers(calls) == Dedup([i \in 1..Len(calls) |-> calls[i].caller_symbol.name])

\* call_graph[func]: the raw callee texts of func, repetitions kept.
Callees(calls, func) ==
  Flatten([i \in 1..Len(calls) |-> IF calls[i].caller_symbol.name = func THEN <<calls[i].callee_name>> ELSE <<>>])

\* dfs(func, visited, depth) of _calculate_max_call_depth, and its loop
\* over call_graph[func]: every callee gets its own copy of visited.
RECURSIVE CallDepthDfs(_, _, _, _)
RECURSIVE CallDepthLoop(_, _, _, _, _)
CallDepthLoop(calls, callees, visited, depth, local_max) ==
  IF callees = <<>> THEN local_max
  ELSE CallDepthLoop(calls, Tail(callees), visited, depth,
                     Max(local_max, CallDepthDfs(calls, Head(callees), visited, depth + 1)))

CallDepthDfs(calls, func, visited, depth) ==
  IF func \in visited \/ ~Contains(Callers(calls), func) THEN depth
  ELSE CallDepthLoop(calls, Callees(calls, func), visited \cup {func}, depth, depth)

\* Mutant: only the first key of call_graph is taken as a root.
MaxRootDepth_first_root(calls, funcs, max_depth) ==
  IF funcs = <<>> THEN max_depth
  ELSE Max(max_depth, CallDepthDfs(calls, Head(funcs), {}, 0))

\* The loop over the keys of call_graph (lines 105-106).
RECURSIVE MaxRootDepth(_, _, _)
MaxRootDepth(calls, funcs, max_depth) ==
  IF funcs = <<>> THEN max_depth
  ELSE MaxRootDepth(calls, Tail(funcs), Max(max_depth, CallDepthDfs(calls, Head(funcs), {}, 0)))

_calculate_max_call_depth(calls) == MaxRootDepth(calls, Callers(calls), 0)

\* Mutant: calculate_complexity without the early return on no Symbols.
calculate_complexity_no_guard(symbols, calls) ==
  Min(5000, Min(1000, Len(symbols) + Len(calls)) * Min(10, _calculate_max_call_depth(calls)))

\* Mutant: the product is returned without the last min(100.0, ...).
ComplexityOf_unclamped(symbol_count, call_count, max_chain_depth) ==
  Min(1000, symbol_count + call_count) * Min(10, max_chain_depth)

\* Lines 72-78, in units of 1/50 (the float is the result / 50):
\* min(100, min(100, (n + c) / 10) * min(2.0, d / 5)).
ComplexityOf(symbol_count, call_count, max_chain_depth) ==
  LET base_complexity_x10 == Min(1000, symbol_count + call_count)
      depth_factor_x5 == Min(10, max_chain_depth)
  IN Min(5000, base_complexity_x10 * depth_factor_x5)

calculate_complexity(symbols, calls) ==
  IF symbols = <<>> THEN 0
  ELSE ComplexityOf(Len(symbols), Len(calls), _calculate_max_call_depth(calls))

\* ------------------------------------------------------------- inputs
ViewsPy == <<"", "views.py">>
RepoPy == <<"", "repo.py">>
UpperMainPy == <<"", "Main.py">>

Fn(n, f, l) == Sym(<<n>>, "function", f, l, <<>>)

\* The end-to-end scenario: main -> run_server -> Handler().
EndToEnd ==
  [symbols |-> <<S_main, S_run_server, S_Handler, S_handle>>,
   call_relations |-> <<CallRelation(S_main, <<"run_server">>), CallRelation(S_run_server, <<"Handler">>)>>]

\* The cyclic chain a -> b -> c -> a; a is a route handler, so an entry.
S_a == Sym(<<"a">>, "function", ViewsPy, 1, <<"@app.route">>)
S_b == Fn("b", ViewsPy, 4)
S_c == Fn("c", ViewsPy, 7)

CyclicChain ==
  [symbols |-> <<S_a, S_b, S_c>>,
   call_relations |-> <<CallRelation(S_a, <<"b">>), CallRelation(S_b, <<"c">>), CallRelation(S_c, <<"a">>)>>]

\* Three nodes of equal top score in a component smaller than half of the
\* graph: step1 -> step2 -> step3 -> step1 in main.py, beside p -> q and
\* r -> s in handlers.py.
TiedComponents ==
  [symbols |-> <<Fn("step1", MainPy, 1), Fn("step2", MainPy, 2), Fn("step3", MainPy, 3),
                 Fn("p", HandlersPy, 1), Fn("q", HandlersPy, 2), Fn("r", HandlersPy, 3), Fn("s", HandlersPy, 4)>>,
   call_relations |-> <<CallRelation(Fn("step1", MainPy, 1), <<"step2">>),
                        CallRelation(Fn("step2", MainPy, 2), <<"step3">>),
                        CallRelation(Fn("step3", MainPy, 3), <<"step1">>),
                        CallRelation(Fn("p", HandlersPy, 1), <<"q">>),
                        CallRelation(Fn("r", HandlersPy, 3), <<"s">>)>>]

\* run, start and main of main.py all call run_server and are called by
\* nobody.
ThreeMains ==
  [symbols |-> <<Fn("run", MainPy, 1), Fn("start", MainPy, 3), S_main, S_run_server>>,
   call_relations |-> <<CallRelation(Fn("run", MainPy, 1), <<"run_server">>),
                        CallRelation(Fn("start", MainPy, 3), <<"run_server">>),
                        CallRelation(S_main, <<"run_server">>)>>]

\* Names that carry CRUD and authentication words.
CrudAuth ==
  [symbols |-> <<Fn("login", RepoPy, 1), Fn("get_user", RepoPy, 5),
                 Sym(<<"UserRepo", "save">>, "method", RepoPy, 9, <<>>),
                 Fn("delete_user", RepoPy, 12), Fn("validate_token", RepoPy, 15)>>,
   call_relations |-> <<CallRelation(Fn("login", RepoPy, 1), <<"get_user">>),
                        CallRelation(Fn("login", RepoPy, 1), <<"validate_token">>)>>]

\* Upper-case letters in the file and symbol name.
UpperCase ==
  [symbols |-> <<Fn("Run", UpperMainPy, 1), Fn("b", UpperMainPy, 2)>>,
   call_relations |-> <<CallRelation(Fn("Run", UpperMainPy, 1), <<"b">>)>>]

\* main of main.py and index of views.py call handle(); a method handle is
\* declared in handlers.py and a function handle in views.py.
SameNameTwoFiles ==
  [symbols |-> <<S_main, S_handle, Fn("index", ViewsPy, 1), Fn("handle", ViewsPy, 3)>>,
   call_relations |-> <<CallRelation(S_main, <<"handle">>), CallRelation(Fn("index", ViewsPy, 1), <<"handle">>)>>]

\* A function login in each of two files.
LoginTwoFiles ==
  [symbols |-> <<Fn("login", RepoPy, 1), Fn("login", ViewsPy, 1)>>,
   call_relations |-> <<>>]

\* main calls start, start calls nothing: two entry names, one flow.
MainCallsStart ==
  [symbols |-> <<S_main, Fn("start", MainPy, 3)>>,
   call_relations |-> <<CallRelation(S_main, <<"start">>)>>]

\* run_server of main.py calls Handler(); views.py declares a function
\* Handler and handlers.py the class Handler.
ClassAndFunction ==
  [symbols |-> <<S_run_server, Fn("Handler", ViewsPy, 1), S_Handler>>,
   call_relations |-> <<CallRelation(S_run_server, <<"Handler">>)>>]

\* A chain of 12 calls in main.py: main -> f1 -> f2 -> ... -> f12.
ChainNames == <<"main", "f1", "f2", "f3", "f4", "f5", "f6", "f7", "f8", "f9", "f10", "f11", "f12">>

DeepChain ==
  [symbols |-> [i \in 1..Len(ChainNames) |-> Fn(ChainNames[i], MainPy, i)],
   call_relations |-> [i \in 1..(Len(ChainNames) - 1) |->
                         CallRelation(Fn(ChainNames[i], MainPy, i), <<ChainNames[i + 1]>>)]]

\* The chain in which main, after f1, also calls f10 itself.
ShortcutChain ==
  [symbols |-> DeepChain.symbols,
   call_relations |-> <<DeepChain.call_relations[1], CallRelation(S_main, <<"f10">>)>>
                        \o Tail(DeepChain.call_relations)]

ServerPy == <<"", "server.py">>

\* The method run of class Server calls the function serve of its file.
MethodRun ==
  [symbols |-> <<Sym(<<"Server", "run">>, "method", ServerPy, 2, <<>>), Fn("serve", ServerPy, 9)>>,
   call_relations |-> <<CallRelation(Sym(<<"Server", "run">>, "method", ServerPy, 2, <<>>), <<"serve">>)>>]

Scenarios ==
  {EndToEnd, CyclicChain, TiedComponents, ThreeMains, CrudAuth, UpperCase, SameNameTwoFiles, LoginTwoFiles,
   MainCallsStart, ClassAndFunction, MethodRun, DeepChain, ShortcutChain}

\* Every choice of at most MaxSyms Symbols and at most MaxCalls calls of
\* the pools, each kept in pool order.
GenericInputs ==
  {[symbols |-> Pick(SymbolPool, I), call_relations |-> Pick(CallPool, J)] :
     I \in {X \in SUBSET (1..Len(SymbolPool)) : Cardinality(X) <= MaxSyms},
     J \in {X \in SUBSET (1..Len(CallPool)) : Cardinality(X) <= MaxCalls}}

Inputs == GenericInputs \cup Scenarios

DepthArgs == {NoDepth} \cup (0..MaxDepthArg)

\* A call whose caller Symbol is not in the Symbol collection.
Malformed(syms, call) == ~Contains(syms, call.caller_symbol)

\* -------------------------------------------------------------- state
VARIABLES
  symbols,          \* analysis.symbols
  call_relations,   \* analysis.call_relations
  max_depth,        \* GraphExporter.max_depth (NoDepth is None)
  pc,               \* the position of the run
  entry_functions,  \* analyze_flows: the entry names still to trace
  entry_idx,        \* analyze_flows: index of the entry being traced
  visited,          \* _trace_execution_flow: visited
  flow_steps,       \* _trace_execution_flow: flow_steps
  files_involved,   \* _trace_execution_flow: files_involved
  stack,            \* the pending dfs(func_name, depth) calls, next one first
  execution_flows,  \* analysis.execution_flows
  complexity_score, \* analysis.complexity_score, in units of 1/50
  G,                \* the graph _build_networkx_graph is working on
  entrypoint,       \* the nodes whose "entrypoint" attribute is True
  unresolved_calls, \* unresolved_calls of the edge loop
  stats,            \* the result of get_graph_stats
  raised,           \* the exception that ended the run, "" when none
  run,              \* 1 for the first run on the input, 2 for a second one
  first             \* what the first run produced, once a second run began

vars == <<symbols, call_relations, max_depth, pc, entry_functions, entry_idx, visited, flow_steps,
          files_involved, stack, execution_flows, complexity_score, G, entrypoint, unresolved_calls,
          stats, raised, run, first>>

inputVars == <<symbols, call_relations>>

flowVars == <<entry_functions, entry_idx, visited, flow_steps, files_involved, stack, execution_flows>>

graphVars == <<G, entrypoint, unresolved_calls, stats, max_depth>>

runVars == <<run, first>>

\* The state a run starts in.
Fresh ==
  /\ pc = "analyze_flows"
  /\ entry_functions = <<>>
  /\ entry_idx = 1
  /\ visited = {}
  /\ flow_steps = <<>>
  /\ files_involved = {}
  /\ stack = <<>>
  /\ execution_flows = <<>>
  /\ complexity_score = 0
  /\ G = EmptyGraph
  /\ entrypoint = {}
  /\ unresolved_calls = <<>>
  /\ stats = NoneVal
  /\ raised = ""

Init ==
  /\ \E in \in Inputs : symbols = in.symbols /\ call_relations = in.call_relations
  /\ max_depth = NoDepth
  /\ run = 1
  /\ first = NoneVal
  /\ Fresh

\* ------------------------------------------------------------ actions
\* FlowAnalyzer.analyze_flows, lines 32-35: the entry names are found.
AnalyzeFlows ==
  /\ pc = "analyze_flows"
  /\ entry_functions' = _find_entry_functions(symbols)
  /\ entry_idx' = 1
  /\ execution_flows' = <<>>
  /\ pc' = "trace"
  /\ UNCHANGED <<inputVars, visited, flow_steps, files_involved, stack, complexity_score, graphVars, raised, runVars>>

\* _trace_execution_flow up to the call dfs(entry_function): an entry that
\* is no node of call_graph gives None, and the loop goes to the next one.
TraceBegin ==
  /\ pc = "trace"
  /\ entry_idx <= Len(entry_functions)
  /\ IF ~InCallGraph(call_relations, entry_functions[entry_idx])
     THEN /\ entry_idx' = entry_idx + 1
          /\ UNCHANGED <<pc, visited, flow_steps, files_involved, stack>>
     ELSE /\ visited' = {}
          /\ flow_steps' = <<>>
          /\ files_involved' = {}
          /\ stack' = <<<<entry_functions[entry_idx], 0>>>>
          /\ pc' = "dfs"
          /\ UNCHANGED entry_idx
  /\ UNCHANGED <<inputVars, entry_functions, execution_flows, complexity_score, graphVars, raised, runVars>>

\* Mutant: the guard of dfs without the ceiling on the depth.
DfsReturns_visited_only(func_name, depth) == func_name \in visited

\* Mutant: the guard of dfs without the visited test.
DfsReturns_depth_only(func_name, depth) == depth > 10

\* The guard of dfs: past the ceiling of 10 hops, or seen in this trace.
DfsReturns(func_name, depth) == depth > 10 \/ func_name \in visited

\* One call dfs(func_name, depth): it returns at once, or records the name
\* and calls dfs on each successor in turn.
DfsStep ==
  /\ pc = "dfs"
  /\ stack # <<>>
  /\ LET func_name == Head(stack)[1]
         depth == Head(stack)[2]
         succ == FlowSuccessors(call_relations, func_name)
     IN IF DfsReturns(func_name, depth)
        THEN /\ stack' = Tail(stack)
             /\ UNCHANGED <<visited, flow_steps, files_involved>>
        ELSE /\ visited' = visited \cup {func_name}
             /\ flow_steps' = Append(flow_steps, func_name)
             /\ files_involved' = files_involved \cup FilesOf(call_relations, func_name)
             /\ stack' = [i \in 1..Len(succ) |-> <<succ[i], depth + 1>>] \o Tail(stack)
  /\ UNCHANGED <<inputVars, pc, entry_functions, entry_idx, execution_flows, complexity_score, graphVars, raised, runVars>>

\* Mutant: the flow is returned whatever the number of its steps.
TracedFlow_always(entry_function, steps, files) ==
  <<ExecutionFlow(Fmt("{}_flow", entry_function), entry_function, steps, files,
                  Fmt("Execution flow starting from {}", entry_function))>>

\* The flow _trace_execution_flow returns after dfs, as a list of 0 or 1.
TracedFlow(entry_function, steps, files) ==
  IF Len(steps) > 1
  THEN <<ExecutionFlow(Fmt("{}_flow", entry_function), entry_function, steps, files,
                       Fmt("Execution flow starting from {}", entry_function))>>
  ELSE <<>>

\* dfs has returned: the flow is appended if there is one.
TraceEnd ==
  /\ pc = "dfs"
  /\ stack = <<>>
  /\ execution_flows' = execution_flows \o TracedFlow(entry_functions[entry_idx], flow_steps, files_involved)
  /\ entry_idx' = entry_idx + 1
  /\ pc' = "trace"
  /\ UNCHANGED <<inputVars, entry_functions, visited, flow_steps, files_involved, stack, complexity_score, graphVars, raised, runVars>>

\* analyze_flows, line 43: the pattern flows are appended.
DetectCommonPatterns ==
  /\ pc = "trace"
  /\ entry_idx > Len(entry_functions)
  /\ execution_flows' = execution_flows \o _detect_common_patterns(symbols)
  /\ pc' = "complexity"
  /\ UNCHANGED <<inputVars, entry_functions, entry_idx, visited, flow_steps, files_involved, stack, complexity_score, graphVars, raised, runVars>>

\* MetricsAnalyzer.calculate_complexity.
CalculateComplexity ==
  /\ pc = "complexity"
  /\ complexity_score' = calculate_complexity(symbols, call_relations)
  /\ pc' = "build"
  /\ UNCHANGED <<inputVars, flowVars, graphVars, raised, runVars>>

\* GraphExporter.__init__ and _build_networkx_graph up to line 130: the
\* nodes and the edges.  A second run is given the max_depth of the first.
BuildGraph ==
  /\ pc = "build"
  /\ \E d \in DepthArgs : (run = 1 \/ d = max_depth) /\ max_depth' = d
  /\ G' = AddEdges(AddNodes(symbols), symbols, call_relations)
  /\ unresolved_calls' = Unresolved(AddNodes(symbols), symbols, call_relations)
  /\ pc' = "prune"
  /\ UNCHANGED <<inputVars, flowVars, complexity_score, entrypoint, stats, raised, runVars>>

\* Lines 134-144: the three pruning passes.
Prune ==
  /\ pc = "prune"
  /\ LET noiseless == _remove_builtin_noise(G, symbols)
         connected == RemoveNodes(noiseless, Isolates(noiseless))
         components == weakly_connected_components(connected)
     IN IF components # <<>>
        THEN LET largest == MaxByLen(components)
             IN IF largest.exc # ""
                THEN raised' = largest.exc /\ pc' = "done" /\ UNCHANGED G
                ELSE /\ \E order \in SubgraphNodeOrders(connected, largest.val) : G' = SubgraphCopy(connected, order)
                     /\ pc' = "enhance"
                     /\ UNCHANGED raised
        ELSE G' = connected /\ pc' = "enhance" /\ UNCHANGED raised
  /\ UNCHANGED <<inputVars, flowVars, complexity_score, entrypoint, unresolved_calls, stats, max_depth, runVars>>

\* _enhance_graph_visualization: the detected entrypoints are flagged.
Enhance ==
  /\ pc = "enhance"
  /\ entrypoint' = {n \in Range(_detect_entrypoints(G)) : HasNode(G, n)}
  /\ pc' = "depth"
  /\ UNCHANGED <<inputVars, flowVars, complexity_score, G, unresolved_calls, stats, max_depth, raised, runVars>>

\* Lines 150-151 and _apply_depth_filter.
DepthFilter ==
  /\ pc = "depth"
  /\ IF max_depth # NoDepth
     THEN LET entrypoints == DepthFilterEntries(G, entrypoint)
          IN IF entrypoints = <<>>
             THEN UNCHANGED <<G, entrypoint>>
             ELSE \E order \in SubgraphNodeOrders(G, NodesToKeep(G, entrypoints, max_depth)) :
                    /\ G' = SubgraphCopy(G, order)
                    /\ entrypoint' = entrypoint \cap Range(order)
     ELSE UNCHANGED <<G, entrypoint>>
  /\ pc' = "stats"
  /\ UNCHANGED <<inputVars, flowVars, complexity_score, unresolved_calls, stats, max_depth, raised, runVars>>

\* GraphExporter.get_graph_stats on self.graph.
GetGraphStats ==
  /\ pc = "stats"
  /\ LET r == get_graph_stats(G)
     IN IF r.exc # "" THEN raised' = r.exc /\ UNCHANGED stats
        ELSE stats' = r.val /\ UNCHANGED raised
  /\ pc' = "done"
  /\ UNCHANGED <<inputVars, flowVars, complexity_score, G, entrypoint, unresolved_calls, max_depth, runVars>>

Next ==
  \/ AnalyzeFlows
  \/ TraceBegin
  \/ DfsStep
  \/ TraceEnd
  \/ DetectCommonPatterns
  \/ CalculateComplexity
  \/ BuildGraph
  \/ Prune
  \/ Enhance
  \/ DepthFilter
  \/ GetGraphStats

Spec == Init /\ [][Next]_vars

\* A second run of the whole analysis on the same collections, in the same
\* order, with the same max_depth; what the first run produced is kept.
Produced(mode) ==
  [mode |-> mode, nodes |-> NodeSet(G), edges |-> G.edges, entrypoint |-> entrypoint,
   flows |-> execution_flows, score |-> complexity_score,
   symbols |-> symbols, built |-> AddEdges(AddNodes(symbols), symbols, call_relations).edges]

Restart ==
  /\ pc' = "analyze_flows"
  /\ entry_functions' = <<>>
  /\ entry_idx' = 1
  /\ visited' = {}
  /\ flow_steps' = <<>>
  /\ files_involved' = {}
  /\ stack' = <<>>
  /\ execution_flows' = <<>>
  /\ complexity_score' = 0
  /\ G' = EmptyGraph
  /\ entrypoint' = {}
  /\ unresolved_calls' = <<>>
  /\ stats' = NoneVal
  /\ raised' = ""
  /\ run' = 2
  /\ UNCHANGED max_depth

RerunSame ==
  /\ pc = "done"
  /\ run = 1
  /\ raised = ""
  /\ first' = Produced("same")
  /\ UNCHANGED <<symbols, call_relations>>
  /\ Restart

\* A second run on the input without its malformed call records.
RerunWithoutMalformed ==
  /\ pc = "done"
  /\ run = 1
  /\ raised = ""
  /\ \E i \in 1..Len(call_relations) : Malformed(symbols, call_relations[i])
  /\ first' = Produced("without_malformed")
  /\ call_relations' = SelectSeq(call_relations, LAMBDA c : ~Malformed(symbols, c))
  /\ UNCHANGED symbols
  /\ Restart

\* The files the records of the input come from.
SourceFiles ==
  {symbols[i].file_path : i \in 1..Len(symbols)}
    \cup {call_relations[i].caller_symbol.file_path : i \in 1..Len(call_relations)}

\* CodebaseAnalyzer.analyze, lines 48-49: _parse_file extends the
\* collections with the records of one file after the other, in the order
\* _find_source_files lists the files (the order of os.walk).
MergeSymbols(files, syms) ==
  Flatten([i \in 1..Len(files) |-> SelectSeq(syms, LAMBDA s : s.file_path = files[i])])

MergeCalls(files, calls) ==
  Flatten([i \in 1..Len(files) |-> SelectSeq(calls, LAMBDA c : c.caller_symbol.file_path = files[i])])

\* A second run in which the same per-file records are merged in another
\* order of the files.
RerunOtherMergeOrder ==
  /\ pc = "done"
  /\ run = 1
  /\ raised = ""
  /\ \E this, other \in Perms(SourceFiles) :
       /\ symbols = MergeSymbols(this, symbols)
       /\ call_relations = MergeCalls(this, call_relations)
       /\ symbols' = MergeSymbols(other, symbols)
       /\ call_relations' = MergeCalls(other, call_relations)
  /\ first' = Produced("merged")
  /\ Restart

NextTwice == Next \/ RerunSame \/ RerunWithoutMalformed \/ RerunOtherMergeOrder

SpecTwice == Init /\ [][NextTwice]_vars

\* ============================================================== claims
SymbolIds == {_node_id(symbols[i]) : i \in 1..Len(symbols)}

HasIncidentEdge(g, n) == \E e \in g.edges : e[1] = n \/ e[2] = n

\* Weak connectivity stated without the traversal: every split of the
\* nodes into two non-empty parts is crossed by an edge.
WeaklyConnected(g) ==
  \A part \in SUBSET NodeSet(g) :
    (part # {} /\ part # NodeSet(g)) =>
      \E e \in g.edges : (e[1] \in part) # (e[2] \in part)

\* The run is past the three pruning passes and before the depth filter.
Pruned == pc \in {"enhance", "depth"}

\* C1: after the three pruning passes and before any depth filtering, every
\* node id is the id of some Symbol, every node has an incident edge, and the
\* graph is weakly connected or empty.
C1_PruningInvariant ==
  Pruned =>
    /\ NodeSet(G) \subseteq SymbolIds
    /\ \A n \in NodeSet(G) : HasIncidentEdge(G, n)
    /\ WeaklyConnected(G)

\* C1 witness: pruning removed some node and left a graph of several nodes.
C1_Witness ==
  /\ Pruned
  /\ Len(G.nodes) >= 2
  /\ Cardinality(NodeSet(G)) < Cardinality(SymbolIds)

\* The Symbols whose short name (text after the last '.') is the short name
\* of the call's raw callee text.
ShortNameMatches(call) ==
  {i \in 1..Len(symbols) : Last(symbols[i].name) = Last(call.callee_name)}

\* The edge from the caller's node to the node of the only candidate.
EdgeToOnlyCandidate(call) ==
  LET i == CHOOSE k \in ShortNameMatches(call) : TRUE
  IN <<_node_id(call.caller_symbol), _node_id(symbols[i])>> \in G.edges

\* The graph is built and not yet pruned.
Built == pc = "prune"

\* C3 as stated: every call whose short callee name matches exactly one
\* Symbol has an edge from the caller's node to that Symbol's node.
C3_Original ==
  Built =>
    \A k \in 1..Len(call_relations) :
      Cardinality(ShortNameMatches(call_relations[k])) = 1 => EdgeToOnlyCandidate(call_relations[k])

\* C3, amended: every call whose caller's node id is the id of some Symbol
\* and whose short callee name matches exactly one Symbol has an edge from
\* the caller's node to that Symbol's node in the built graph.
C3_ResolutionSoundness ==
  Built =>
    \A k \in 1..Len(call_relations) :
      (/\ _node_id(call_relations[k].caller_symbol) \in SymbolIds
       /\ Cardinality(ShortNameMatches(call_relations[k])) = 1)
      => EdgeToOnlyCandidate(call_relations[k])

\* C3 witness: a dotted callee text (self.handle) with one candidate has
\* its edge.
C3_Witness ==
  /\ Built
  /\ \E k \in 1..Len(call_relations) :
       /\ Len(call_relations[k].callee_name) = 2
       /\ _node_id(call_relations[k].caller_symbol) \in SymbolIds
       /\ Cardinality(ShortNameMatches(call_relations[k])) = 1
       /\ EdgeToOnlyCandidate(call_relations[k])

\* The run is on the given input.
InputIs(in) == symbols = in.symbols /\ call_relations = in.call_relations

N_main == _node_id(S_main)
N_run_server == _node_id(S_run_server)
N_Handler == _node_id(S_Handler)

\* C4: in the end-to-end scenario the pruned graph has exactly the nodes
\* main, run_server and Handler and the 2 edges between them, the entrypoint
\* set is {main}, and the flow list is the one flow main_flow with steps
\* [main, run_server, Handler].
C4_EndToEnd ==
  (InputIs(EndToEnd) /\ pc = "depth") =>
    /\ Len(G.nodes) = 3
    /\ NodeSet(G) = {N_main, N_run_server, N_Handler}
    /\ G.edges = {<<N_main, N_run_server>>, <<N_run_server, N_Handler>>}
    /\ entrypoint = {N_main}
    /\ Len(execution_flows) = 1
    /\ execution_flows[1].name = Fmt("{}_flow", <<"main">>)
    /\ execution_flows[1].entry_point = <<"main">>
    /\ execution_flows[1].steps = <<<<"main">>, <<"run_server">>, <<"Handler">>>>

\* C4 witness: the scenario has been run up to the entrypoint detection.
C4_Witness == InputIs(EndToEnd) /\ pc = "depth" /\ entrypoint # {} /\ execution_flows # <<>>

\* The flow of the cyclic chain has been traced.
ChainTraced == InputIs(CyclicChain) /\ pc \notin {"analyze_flows", "dfs"} /\ entry_idx > 1

\* The variant of a trace: a step of dfs records a name not seen before, or
\* leaves the visited set as it is and takes one pending call off the stack.
DfsProgress ==
  (pc = "dfs" /\ pc' = "dfs") =>
     \/ visited \subseteq visited' /\ visited # visited'
     \/ visited' = visited /\ Len(stack') < Len(stack)

\* The names a trace can visit: the nodes of call_graph.
CallGraphNames ==
  {call_relations[i].caller_symbol.name : i \in 1..Len(call_relations)}
    \cup {call_relations[i].callee_name : i \in 1..Len(call_relations)}

\* C5: every trace ends, cyclic call relations included: while dfs runs a
\* step is always possible, each step records a new name of the finite call
\* graph or consumes a pending call, so no trace runs for ever; and
\* a -> b -> c -> a traced from a gives the flow with steps [a, b, c].
C5_CycleTermination ==
  /\ [][DfsProgress]_vars
  /\ [](pc = "dfs" => (ENABLED Next /\ visited \subseteq CallGraphNames))
  /\ [](ChainTraced =>
          /\ Len(execution_flows) = 1
          /\ execution_flows[1].steps = <<<<"a">>, <<"b">>, <<"c">>>>)

\* C5 witness: the trace of the cyclic chain has ended with a flow.
C5_Witness == ChainTraced /\ pc = "trace" /\ Len(execution_flows) = 1 /\ visited = {<<"a">>, <<"b">>, <<"c">>}

\* C6: a depth filter with max depth 0 and a non-empty entry set returns a
\* graph whose node set is exactly the entry nodes.
C6_DepthZero ==
  [][(pc = "depth" /\ max_depth = 0 /\ DepthFilterEntries(G, entrypoint) # <<>>)
       => NodeSet(G') = Range(DepthFilterEntries(G, entrypoint))]_vars

\* C6 witness: the filter ran with max depth 0 and cut the graph down to
\* its entry nodes (a pruned graph has no node without an edge).
C6_Witness ==
  /\ pc = "stats"
  /\ max_depth = 0
  /\ entrypoint # {}
  /\ NodeSet(G) = entrypoint
  /\ G.edges = {}

\* Position of a node in the node order of the graph.
NodePos(g, n) == CHOOSE i \in 1..Len(g.nodes) : g.nodes[i] = n

\* main of main.py is a node of the pruned graph and nobody calls it; the
\* detector has run on that graph.
MainUncalled == pc = "depth" /\ HasNode(G, N_main) /\ InDegree(G, N_main) = 0

\* C7 as stated: main of main.py with no incoming edge scores 6 and is in
\* the entrypoint set.
C7_Original ==
  MainUncalled => (EntrypointScore(G, N_main) = 6 /\ N_main \in entrypoint)

\* C7, amended: main of main.py with no incoming edge scores 3+2+1 = 6, and
\* it is in the entrypoint set exactly when no node of the graph scores more
\* than 6 and fewer than two nodes before it in graph node order score 6.
C7_MainEntrypoint ==
  MainUncalled =>
    /\ EntrypointScore(G, N_main) = 6
    /\ N_main \in entrypoint <=>
         /\ \A n \in NodeSet(G) : EntrypointScore(G, n) <= 6
         /\ Cardinality({i \in 1..(NodePos(G, N_main) - 1) : EntrypointScore(G, G.nodes[i]) = 6}) < 2

\* C7 witness: main is an entrypoint beside other nodes.
C7_Witness == MainUncalled /\ N_main \in entrypoint /\ Len(G.nodes) >= 3

\* The complexity score of the run has been computed.
Scored == pc \notin {"analyze_flows", "trace", "dfs", "complexity"}

\* C8: with no Symbols the score is 0 whatever the call relations are, and
\* with no call relations it is 0 whatever the number of Symbols is.
C8_ComplexityFloor ==
  (Scored /\ (symbols = <<>> \/ call_relations = <<>>)) => complexity_score = 0

\* C8 witness: no Symbols, several call relations, score computed.
C8_Witness == pc = "build" /\ symbols = <<>> /\ Len(call_relations) >= 2

\* The results of a finished run are well formed.
WellFormed ==
  /\ \A i, j \in 1..Len(G.nodes) : G.nodes[i] = G.nodes[j] => i = j
  /\ \A e \in G.edges : e[1] \in NodeSet(G) /\ e[2] \in NodeSet(G)
  /\ entrypoint \subseteq NodeSet(G)
  /\ Cardinality(entrypoint) <= 2
  /\ complexity_score \in 0..5000
  /\ \A i \in 1..Len(execution_flows) : Len(execution_flows[i].steps) >= 2
  /\ stats.nodes = Len(G.nodes)
  /\ stats.edges = Cardinality(G.edges)
  /\ stats.components >= 0
  /\ stats.is_connected \in BOOLEAN

EmptyInput == symbols = <<>> /\ call_relations = <<>>

SecondRunDone(mode) == run = 2 /\ pc = "done" /\ first.mode = mode

\* C2: a second run on the same Symbol and CallReference sequences gives
\* the same node set, edge set, entrypoint set and flow step sequences.
C2_Deterministic ==
  SecondRunDone("same") =>
    /\ NodeSet(G) = first.nodes
    /\ G.edges = first.edges
    /\ entrypoint = first.entrypoint
    /\ [i \in 1..Len(execution_flows) |-> execution_flows[i].steps]
         = [i \in 1..Len(first.flows) |-> first.flows[i].steps]

\* C10: a run on an input with malformed call records (caller Symbol absent
\* from the Symbol collection) gives the graph edges, entrypoint set, flows
\* and complexity score of the run on the input without those records.
C10_MalformedSkipped ==
  SecondRunDone("without_malformed") =>
    /\ G.edges = first.edges
    /\ entrypoint = first.entrypoint
    /\ execution_flows = first.flows
    /\ complexity_score = first.score

\* C11: when the same per-file record sets are merged in two orders, every
\* call resolves to the same target in both runs and the built edge sets are
\* identical.
C11_MergeOrderIndependent ==
  (run = 2 /\ first.mode = "merged" /\ pc = "prune") =>
    /\ \A k \in 1..Len(call_relations) :
         ResolveCallee(symbols, call_relations[k]) = ResolveCallee(first.symbols, call_relations[k])
    /\ G.edges = first.built

\* C12: the diagnostics list of the edge loop holds exactly the raw callee
\* texts of the calls for which no strategy found a target Symbol, in the
\* order of the calls; the loop raises nothing and handles every call.
C12_Diagnostics ==
  Built =>
    /\ raised = ""
    /\ unresolved_calls =
         Flatten([k \in 1..Len(call_relations) |->
                    IF ShortNameMatches(call_relations[k]) = {}
                    THEN <<call_relations[k].callee_name>> ELSE <<>>])

\* C13: no name occurs twice in the steps of any flow of the flow list.
C13_NoDuplicateSteps ==
  \A i \in 1..Len(execution_flows) :
    \A j, k \in 1..Len(execution_flows[i].steps) :
      execution_flows[i].steps[j] = execution_flows[i].steps[k] => j = k

\* A step that ends the trace of entry_functions[entry_idx]: the flow list
\* grows exactly when dfs recorded more than one step, never for an entry
\* that is the caller of no call relation, and the flow added carries the
\* entry name in its name, entry_point and first step.
TraceOutcome ==
  (pc \in {"trace", "dfs"} /\ entry_idx' = entry_idx + 1) =>
    LET entry == entry_functions[entry_idx]
        emitted == execution_flows' # execution_flows
    IN /\ emitted <=> (pc = "dfs" /\ Len(flow_steps) > 1)
       /\ (\A i \in 1..Len(call_relations) : call_relations[i].caller_symbol.name # entry) => ~emitted
       /\ emitted =>
            /\ execution_flows' = Append(execution_flows, Last(execution_flows'))
            /\ Last(execution_flows').name = Fmt("{}_flow", entry)
            /\ Last(execution_flows').entry_point = entry
            /\ Last(execution_flows').steps = flow_steps
            /\ Last(execution_flows').steps[1] = entry

\* While the entries are traced the flow list holds traced flows only.
TracedFlowsNamed ==
  pc \in {"trace", "dfs"} =>
    \A i \in 1..Len(execution_flows) :
      /\ Len(execution_flows[i].steps) > 1
      /\ execution_flows[i].name = Fmt("{}_flow", execution_flows[i].entry_point)
      /\ execution_flows[i].steps[1] = execution_flows[i].entry_point

\* C14: a traced flow is emitted if and only if the trace recorded more
\* than one step; an entry with no outgoing call relation, or absent from
\* the call relations, yields no flow; every emitted traced flow is named
\* "<entry>_flow", has the entry as entry_point and as its first step.
C14_FlowEmission == [][TraceOutcome]_vars /\ []TracedFlowsNamed

\* C14 witness: main calls start; the trace of main gave a flow, the trace
\* of start recorded one step and gave none.
C14_Witness ==
  /\ InputIs(MainCallsStart)
  /\ pc = "trace"
  /\ entry_idx = 3
  /\ flow_steps = <<<<"start">>>>
  /\ Len(execution_flows) = 1
  /\ execution_flows[1].steps = <<<<"main">>, <<"start">>>>

\* The least element of a non-empty set of positions.
First(S) == CHOOSE i \in S : \A j \in S : i <= j

\* The short-name matches of the call that are declared in the caller's file.
SameFileMatches(call) ==
  {i \in ShortNameMatches(call) : symbols[i].file_path = call.caller_symbol.file_path}

\* The Symbol step 1 is to choose: the first match of the caller's file,
\* and without one the first match of the collection.
Step1Target(call) ==
  IF SameFileMatches(call) # {}
  THEN symbols[First(SameFileMatches(call))]
  ELSE symbols[First(ShortNameMatches(call))]

\* C15: when the short name of the raw callee text has candidates, the
\* resolver's target is the first candidate declared in the caller's file if
\* there is one, and otherwise the first candidate in collection order; the
\* edge of a caller that has a node goes to that target.
C15_ResolverStep1 ==
  Built =>
    \A k \in 1..Len(call_relations) :
      ShortNameMatches(call_relations[k]) # {} =>
        /\ ResolveCallee(symbols, call_relations[k]) = _node_id(Step1Target(call_relations[k]))
        /\ _node_id(call_relations[k].caller_symbol) \in SymbolIds =>
             <<_node_id(call_relations[k].caller_symbol), _node_id(Step1Target(call_relations[k]))>> \in G.edges

\* C15 witness: a call with a candidate in the caller's file that is not the
\* first candidate of the collection, and one with candidates in other
\* files only.
C15_Witness ==
  /\ Built
  /\ \E k \in 1..Len(call_relations) :
       /\ SameFileMatches(call_relations[k]) # {}
       /\ First(SameFileMatches(call_relations[k])) # First(ShortNameMatches(call_relations[k]))
       /\ <<_node_id(call_relations[k].caller_symbol), _node_id(Step1Target(call_relations[k]))>> \in G.edges
  /\ \E k \in 1..Len(call_relations) :
       /\ SameFileMatches(call_relations[k]) = {}
       /\ Cardinality(ShortNameMatches(call_relations[k])) >= 2
       /\ <<_node_id(call_relations[k].caller_symbol), _node_id(Step1Target(call_relations[k]))>> \in G.edges

\* The class Symbols whose name is the raw callee text of the call.
ClassesNamed(call) ==
  {i \in 1..Len(symbols) : symbols[i].type = "class" /\ symbols[i].name = call.callee_name}

\* C16: for a call whose raw callee text is the name of a class Symbol, the
\* resolver's target is a class Symbol of that name, whatever same-named
\* Symbols of another kind there are.
C16_ConstructorPreference ==
  Built =>
    \A k \in 1..Len(call_relations) :
      ClassesNamed(call_relations[k]) # {} =>
        ResolveCallee(symbols, call_relations[k])
          \in {_node_id(symbols[i]) : i \in ClassesNamed(call_relations[k])}

\* The nodes of the greatest score, in graph node order.
TopScored(g) ==
  SelectSeq(g.nodes, LAMBDA n : \A m \in NodeSet(g) : EntrypointScore(g, m) <= EntrypointScore(g, n))

\* C17: on every graph the detector returns at most 2 node ids, each a node
\* whose score is at least 3 and is the greatest score of the graph; the
\* result is empty exactly when no node scores at least 3; when more than
\* two nodes share the greatest score the two returned are the first two in
\* graph node order; the nodes flagged by the enhancement are the result.
C17_EntrypointSelection ==
  LET result == _detect_entrypoints(G)
  IN /\ Len(result) <= 2
     /\ \A i \in 1..Len(result) :
          /\ result[i] \in NodeSet(G)
          /\ EntrypointScore(G, result[i]) >= 3
          /\ \A n \in NodeSet(G) : EntrypointScore(G, n) <= EntrypointScore(G, result[i])
     /\ result = <<>> <=> \A n \in NodeSet(G) : EntrypointScore(G, n) < 3
     /\ (result # <<>> /\ Len(TopScored(G)) > 2) => result = SubSeq(TopScored(G), 1, 2)
     /\ pc = "depth" => entrypoint = Range(result)

\* C17 witness: three nodes share the greatest score and the first two of
\* the node order are the entrypoints.
C17_Witness ==
  /\ pc = "depth"
  /\ Len(TopScored(G)) = 3
  /\ Len(G.nodes) > 3
  /\ entrypoint = {TopScored(G)[1], TopScored(G)[2]}

\* The lower-cased basename without its extension, for the basenames of
\* the inputs.
FileStem(file_name) ==
  CASE LowerSeg(file_name) = "main.py" -> "main"
    [] LowerSeg(file_name) = "server.py" -> "server"
    [] LowerSeg(file_name) = "handlers.py" -> "handlers"
    [] LowerSeg(file_name) = "views.py" -> "views"
    [] LowerSeg(file_name) = "repo.py" -> "repo"
    [] OTHER -> LowerSeg(file_name)

\* The score of the table: file points by basename stem, name points by the
\* short name (text after the last '.'), one point for no incoming edge.
TableScore(g, node) ==
  LET stem == FileStem(node[1])
      short == LowerSeg(Last(node[2]))
  IN (IF stem \in {"main", "app", "__main__"} THEN 3 ELSE 0)
     + (IF stem \in {"cli", "server", "run"} THEN 2 ELSE 0)
     + (IF short \in {"main", "run", "start"} THEN 2 ELSE 0)
     + (IF short \in {"app", "cli", "server"} THEN 1 ELSE 0)
     + (IF short = "build" THEN 3 ELSE 0)
     + (IF \A e \in g.edges : e[2] # node THEN 1 ELSE 0)

\* C18: the score of every node is the sum of the table: +3 for a file
\* main.*, app.* or __main__.*, +2 for cli.*, server.* or run.*, +2 for the
\* short name main, run or start, +1 for app, cli or server, +3 for build,
\* +1 for zero incoming edges.
C18_ScoreTable ==
  \A n \in NodeSet(G) : EntrypointScore(G, n) = TableScore(G, n)

\* The nodes at directed distance at most d from the set S: one level of
\* the simultaneous traversal per unit of d.
RECURSIVE WithinDistance(_, _, _)
WithinDistance(g, S, d) ==
  IF d = 0 THEN S
  ELSE WithinDistance(g, S \cup {e[2] : e \in {x \in g.edges : x[1] \in S}}, d - 1)

\* A step of the depth filter with a max depth d >= 0: with no entry node
\* the graph is left as it is, otherwise the result has exactly the nodes
\* at distance at most d from some entry node, each once, and exactly the
\* edges of the input between two kept nodes.
DepthFilterStep ==
  (pc = "depth" /\ pc' = "stats" /\ max_depth >= 0) =>
    LET entries == DepthFilterEntries(G, entrypoint)
        kept == WithinDistance(G, Range(entries), max_depth)
    IN IF entries = <<>>
       THEN G' = G
       ELSE /\ NodeSet(G') = kept
            /\ Len(G'.nodes) = Cardinality(kept)
            /\ G'.edges = {e \in G.edges : e[1] \in kept /\ e[2] \in kept}

\* C19: for a max depth d >= 0 the depth filter returns the input graph
\* unchanged when the entry set is empty, and otherwise the node-induced
\* subgraph on exactly the nodes whose shortest directed distance from some
\* entry node is at most d, with exactly the input edges between kept nodes.
C19_DepthFilterSemantics == [][DepthFilterStep]_vars

\* C19 witness: the end-to-end scenario filtered at depth 1 keeps main and
\* run_server with the edge between them and drops Handler.
C19_Witness ==
  /\ InputIs(EndToEnd)
  /\ pc = "stats"
  /\ max_depth = 1
  /\ NodeSet(G) = {N_main, N_run_server}
  /\ G.edges = {<<N_main, N_run_server>>}

\* min(100, base * depth_factor) written out by cases, in units of 1/50:
\* base = (n + c) / 10 capped at 100, depth_factor = d / 5 capped at 2.
ClampedProduct(n, c, d) ==
  LET base_x10 == IF n + c >= 1000 THEN 1000 ELSE n + c
      factor_x5 == IF d >= 10 THEN 10 ELSE d
  IN IF base_x10 * factor_x5 >= 5000 THEN 5000 ELSE base_x10 * factor_x5

\* Symbol and call counts on both sides of the caps of the formula.
LargeCounts == {0, 1, 249, 250, 251, 499, 500, 501, 1000, 2000}

\* C20: for a non-empty Symbol collection the score is
\* min(100, base * depth_factor) with base = min(100, (n + c) / 10) and
\* depth_factor = min(2, max_depth / 5), and for every input the score lies
\* in [0, 100]; the arithmetic is also checked for counts and depths on
\* both sides of each cap.
C20_ComplexityFormula ==
  /\ complexity_score \in 0..5000
  /\ (Scored /\ symbols # <<>>) =>
       complexity_score = ClampedProduct(Len(symbols), Len(call_relations), _calculate_max_call_depth(call_relations))
  /\ (pc = "build" /\ InputIs(DeepChain)) =>
       \A n \in LargeCounts \ {0}, c \in LargeCounts, d \in 0..(2 * _calculate_max_call_depth(call_relations)) :
         /\ ComplexityOf(n, c, d) = ClampedProduct(n, c, d)
         /\ ComplexityOf(n, c, d) \in 0..5000

\* C20 witness: the chain of 12 calls has depth 12, so the depth factor is
\* capped at 2: 25 records give (25 / 10) * 2 = 5.0, that is 250 / 50.
C20_Witness ==
  /\ InputIs(DeepChain)
  /\ pc = "build"
  /\ _calculate_max_call_depth(call_relations) = 12
  /\ complexity_score = 250

\* A step of dfs that records a name records the name of the pending call,
\* and that call is at a depth of at most 10.
RecordsWithinCeiling ==
  (pc = "dfs" /\ flow_steps' # flow_steps) =>
    /\ stack # <<>>
    /\ Head(stack)[2] <= 10
    /\ flow_steps' = Append(flow_steps, Head(stack)[1])

\* The first n names of the chain, as steps.
ChainSteps(n) == [i \in 1..n |-> <<ChainNames[i]>>]

\* The trace of the long chain has ended.
DeepChainTraced == InputIs(DeepChain) /\ pc \notin {"analyze_flows", "dfs"} /\ entry_idx > 1

\* C21: no name is recorded in a trace at a DFS depth of more than 10 hops
\* from the entry, and the chain main -> f1 -> ... -> f12 gives the flow of
\* exactly the 11 steps main, f1, ..., f10.
C21_HopCeiling ==
  /\ [][RecordsWithinCeiling]_vars
  /\ [](DeepChainTraced =>
          /\ Len(execution_flows) = 1
          /\ execution_flows[1].steps = ChainSteps(11))

\* C21 witness: the trace of the chain has ended with its 11 steps, f11 and
\* f12 left out.
C21_Witness ==
  /\ DeepChainTraced
  /\ pc = "trace"
  /\ Len(flow_steps) = 11
  /\ Last(flow_steps) = <<"f10">>
  /\ <<"f11">> \notin visited
  /\ Len(execution_flows) = 1

\* The pairs (file basename, symbol name) of the Symbols.
BasenameNamePairs == {<<symbols[i].file_path[2], symbols[i].name>> : i \in 1..Len(symbols)}

\* C22: before pruning the node set is the set of distinct (file basename,
\* symbol name) pairs of the Symbols, each node once, so two Symbols of
\* different files with the same basename and name share one node; every
\* edge joins two such ids.
C22_NodeConstruction ==
  Built =>
    /\ NodeSet(G) = BasenameNamePairs
    /\ Len(G.nodes) = Cardinality(BasenameNamePairs)
    /\ \A e \in G.edges : e[1] \in BasenameNamePairs /\ e[2] \in BasenameNamePairs

\* C22 witness: main of main.py and main of pkg/main.py are both Symbols and
\* share one node; a method has its node and there is an edge.
C22_Witness ==
  /\ Built
  /\ Contains(symbols, S_main)
  /\ Contains(symbols, S_pkg_main)
  /\ Contains(symbols, S_handle)
  /\ Len(G.nodes) = Len(symbols) - 1
  /\ G.edges # {}

\* C23: every step of every flow of the flow list is the name of a Symbol
\* of the collection.
C23_StepsAreSymbolNames ==
  \A i \in 1..Len(execution_flows) :
    \A j \in 1..Len(execution_flows[i].steps) :
      \E k \in 1..Len(symbols) : symbols[k].name = execution_flows[i].steps[j]

\* C24: strategies 2 and 3 never decide a target: a raw callee text that is
\* a key of the index has its short name as a key too, so strategy 1 takes
\* the call; a call resolves if and only if its short callee name is the
\* short name of some Symbol, and then to the target of strategy 1.
C24_OnlyStrategy1Decides ==
  Built =>
    \A k \in 1..Len(call_relations) :
      LET call == call_relations[k]
      IN /\ InIndex(symbols, call.callee_name) => InIndex(symbols, <<Last(call.callee_name)>>)
         /\ ResolveCallee(symbols, call) # NoneVal <=> ShortNameMatches(call) # {}
         /\ ShortNameMatches(call) # {} => ResolveCallee(symbols, call) = _node_id(Step1Target(call))

\* C24 witness: a raw callee text Owner.Member that is itself a key of the
\* index, beside a call that does not resolve.
C24_Witness ==
  /\ Built
  /\ \E k \in 1..Len(call_relations) :
       /\ Len(call_relations[k].callee_name) = 2
       /\ InIndex(symbols, call_relations[k].callee_name)
       /\ ResolveCallee(symbols, call_relations[k]) # NoneVal
  /\ \E k \in 1..Len(call_relations) : ResolveCallee(symbols, call_relations[k]) = NoneVal

\* Position in the Symbol collection of the first Symbol with the node's id.
FirstSymbolPos(n) == First({i \in 1..Len(symbols) : _node_id(symbols[i]) = n})

\* The weakly connected components of the nodes of g that have an edge.
LiveComponents(g) == {WeakClosure(g, {n}) : n \in {m \in NodeSet(g) : HasIncidentEdge(g, m)}}

\* The components of the greatest node count.
TiedLargest(g) == {c \in LiveComponents(g) : \A d \in LiveComponents(g) : Cardinality(d) <= Cardinality(c)}

\* A step of the pruning passes keeps, among the components of the greatest
\* node count, the one that holds the node of the earliest Symbol, with its
\* edges, and nothing of any other component.
TieBreakStep ==
  (pc = "prune" /\ pc' = "enhance") =>
    IF LiveComponents(G) = {} THEN G'.nodes = <<>> /\ G'.edges = {}
    ELSE LET earliest == CHOOSE n \in UNION TiedLargest(G) :
                           \A m \in UNION TiedLargest(G) : FirstSymbolPos(n) <= FirstSymbolPos(m)
         IN \E c \in TiedLargest(G) :
              /\ earliest \in c
              /\ NodeSet(G') = c
              /\ G'.edges = {e \in G.edges : e[1] \in c /\ e[2] \in c}

\* C25: when several weakly connected components tie for the largest node
\* count, the component kept is the one that contains the earliest node in
\* graph insertion order (the node of the earliest Symbol among the nodes of
\* the tied components); every other component is removed entirely.
C25_ComponentTieBreak == [][TieBreakStep]_vars

\* C25 witness: two components of two nodes each were built, and the one of
\* main, the earlier Symbol, is the pruned graph.
C25_Witness ==
  /\ InputIs(SameNameTwoFiles)
  /\ pc = "enhance"
  /\ NodeSet(G) = {N_main, _node_id(S_handle)}
  /\ Cardinality(G.edges) = 1

\* C26: the flow list never holds two flows of the same name.
C26_FlowNamesUnique ==
  \A i, j \in 1..Len(execution_flows) :
    execution_flows[i].name = execution_flows[j].name => i = j

\* The distinct caller names, and the calls from one of them to another.
CallerNames == {call_relations[i].caller_symbol.name : i \in 1..Len(call_relations)}

CallerEdge(a, b) ==
  \E i \in 1..Len(call_relations) :
    call_relations[i].caller_symbol.name = a /\ call_relations[i].callee_name = b

SetMax(S) == CHOOSE x \in S : \A y \in S : y <= x

\* The number of vertices of the longest simple path of caller names that
\* starts at v and avoids the names in used (v is in used).
RECURSIVE LongestPathFrom(_, _)
LongestPathFrom(v, used) ==
  LET nexts == {w \in CallerNames \ used : CallerEdge(v, w)}
  IN IF nexts = {} THEN 1
     ELSE 1 + SetMax({LongestPathFrom(w, used \cup {w}) : w \in nexts})

LongestCallerPath ==
  IF CallerNames = {} THEN 0 ELSE SetMax({LongestPathFrom(v, {v}) : v \in CallerNames})

\* C27: the max call depth is computed for every call relation, cyclic ones
\* included, and is the number of vertices of the longest simple directed
\* path among the caller names; it is at least 1 when there is a call
\* relation and at most the number of distinct caller names.
C27_MaxCallDepth ==
  pc = "build" =>
    /\ _calculate_max_call_depth(call_relations) = LongestCallerPath
    /\ call_relations # <<>> => _calculate_max_call_depth(call_relations) >= 1
    /\ _calculate_max_call_depth(call_relations) <= Cardinality(CallerNames)

\* C27 witness: the cycle a -> b -> c -> a has depth 3, and 3 Symbols with
\* 3 calls score (6 / 10) * (3 / 5) = 18 / 50.
C27_Witness ==
  /\ InputIs(CyclicChain)
  /\ pc = "build"
  /\ LongestCallerPath = 3
  /\ complexity_score = 18

\* A step of the depth filter with a max depth d >= 0 and flagged
\* entrypoints: the result is a subgraph of the pruned graph, holds every
\* flagged node, each of its nodes is within d edges of a flagged node along
\* edges of the result itself, and the node set for a smaller depth is
\* contained in it as it is contained in the node set for d + 1.
FilteredFromEntrypoints ==
  (pc = "depth" /\ pc' = "stats" /\ max_depth >= 0 /\ entrypoint # {}) =>
    /\ NodeSet(G') \subseteq NodeSet(G)
    /\ G'.edges \subseteq G.edges
    /\ entrypoint \subseteq NodeSet(G')
    /\ entrypoint' = entrypoint
    /\ NodeSet(G') \subseteq WithinDistance(G', entrypoint, max_depth)
    /\ \A d \in 0..max_depth :
         NodesToKeep(G, DepthFilterEntries(G, entrypoint), d) \subseteq NodeSet(G')
    /\ NodeSet(G') \subseteq NodesToKeep(G, DepthFilterEntries(G, entrypoint), max_depth + 1)

\* C28: with a max depth d >= 0 and entrypoints flagged, the depth-filtered
\* graph is a subgraph of the pruned graph that contains every flagged node,
\* each of its nodes is reachable from a flagged node by a path of at most d
\* edges inside the filtered graph, and the node set grows with d.
C28_FilteredSubgraph == [][FilteredFromEntrypoints]_vars

\* C28 witness: run, start and main call run_server; at depth 1 the two
\* flagged nodes and run_server are kept, and one of the three callers,
\* which is not flagged, is dropped.
C28_Witness ==
  /\ InputIs(ThreeMains)
  /\ pc = "stats"
  /\ max_depth = 1
  /\ Cardinality(entrypoint) = 2
  /\ Len(G.nodes) = 3
  /\ N_run_server \in NodeSet(G)
  /\ N_main \notin NodeSet(G)

\* The names within d hops of the names in S along caller -> callee.
RECURSIVE NamesWithin(_, _)
NamesWithin(S, d) ==
  IF d = 0 THEN S
  ELSE NamesWithin(S \cup {call_relations[i].callee_name :
                             i \in {j \in 1..Len(call_relations) : call_relations[j].caller_symbol.name \in S}},
                   d - 1)

\* C29: when the dfs of a trace has returned, the recorded steps hold every
\* name that a path of at most 10 hops reaches from the entry.
C29_FlowComplete ==
  (pc = "dfs" /\ stack = <<>>) =>
    NamesWithin({entry_functions[entry_idx]}, 10) \subseteq Range(flow_steps)

\* The node has a self-loop and no other incident edge.
SelfLoopOnly(g, n) ==
  /\ <<n, n>> \in g.edges
  /\ \A e \in g.edges : (e[1] = n \/ e[2] = n) => e = <<n, n>>

\* In the built graph a call that resolves to its own caller has its
\* self-loop, and a node with a self-loop only is not isolated and is a
\* component of its own.
SelfLoopsBuilt ==
  Built =>
    /\ \A k \in 1..Len(call_relations) :
         (/\ _node_id(call_relations[k].caller_symbol) \in SymbolIds
          /\ ResolveCallee(symbols, call_relations[k]) = _node_id(call_relations[k].caller_symbol))
         => <<_node_id(call_relations[k].caller_symbol), _node_id(call_relations[k].caller_symbol)>> \in G.edges
    /\ \A n \in NodeSet(G) :
         SelfLoopOnly(G, n) => (n \notin Isolates(G) /\ {n} \in LiveComponents(G))

\* A node with a self-loop only has in-degree 1, and its score is one less
\* than the score it has in the graph without edges.
SelfLoopScore ==
  \A n \in NodeSet(G) :
    SelfLoopOnly(G, n) =>
      /\ Cardinality({e \in G.edges : e[2] = n}) = 1
      /\ EntrypointScore(G, n) + 1 = EntrypointScore([G EXCEPT !.edges = {}], n)

\* When every component of the built graph is a node with a self-loop only,
\* the pruned graph is one such node with its loop.
SelfLoopKept ==
  (pc = "prune" /\ pc' = "enhance" /\ LiveComponents(G) # {}
     /\ \A c \in LiveComponents(G) : Cardinality(c) = 1) =>
    /\ Len(G'.nodes) = 1
    /\ SelfLoopOnly(G, G'.nodes[1])
    /\ G'.edges = {<<G'.nodes[1], G'.nodes[1]>>}

\* C30: a call that resolves to its own caller adds a self-loop; a node
\* whose only incident edge is a self-loop is not removed by the isolation
\* filter, is a weakly connected component of size 1 and is the whole pruned
\* graph when no larger component exists; it has in-degree 1 and does not
\* get the entrypoint point for zero incoming edges.
C30_SelfCalls == []SelfLoopsBuilt /\ []SelfLoopScore /\ [][SelfLoopKept]_vars

\* C30 witness: the pruned graph of an input of several Symbols is a single
\* node with its self-loop.
C30_Witness ==
  /\ pc = "enhance"
  /\ Len(symbols) >= 2
  /\ Len(G.nodes) = 1
  /\ G.edges = {<<G.nodes[1], G.nodes[1]>>}

====
